---------------------------- MODULE Spec2Model ----------------------------
(***************************************************************************)
(* A model of update_leaderboard.py: the batch job that downloads the      *)
(* Chatbot-Arena+ leaderboard, enriches it with model pricing from LiteLLM *)
(* and OpenRouter, and writes a CSV and a Markdown preview.                *)
(*                                                                         *)
(* Python strings are modelled as sequences of one-character strings, so   *)
(* that the regular expressions and substring tests of the script are      *)
(* computed rather than assumed.  A Python dict is modelled as a sequence  *)
(* of [key, data] pairs with unique keys, in insertion order.              *)
(***************************************************************************)
EXTENDS Integers, Sequences, FiniteSets, TLC

(***************************************************************************)
(* Strings                                                                 *)
(***************************************************************************)
Digits == {"0", "1", "2", "3", "4", "5", "6", "7", "8", "9"}

LowerLetters ==
    {"a", "b", "c", "d", "e", "f", "g", "h", "i", "j", "k", "l", "m",
     "n", "o", "p", "q", "r", "s", "t", "u", "v", "w", "x", "y", "z"}

\* Python's \s and str.strip(): the whitespace characters of the model.
Whitespace == {" ", "\t", "\n"}

\* The class [-_\s] of generate_model_variants.
Separators == {"-", "_"} \cup Whitespace

UpperSeq ==
    <<"A", "B", "C", "D", "E", "F", "G", "H", "I", "J", "K", "L", "M",
      "N", "O", "P", "Q", "R", "S", "T", "U", "V", "W", "X", "Y", "Z">>

LowerSeq ==
    <<"a", "b", "c", "d", "e", "f", "g", "h", "i", "j", "k", "l", "m",
      "n", "o", "p", "q", "r", "s", "t", "u", "v", "w", "x", "y", "z">>

\* str.lower() on one character.
LowerChar(c) ==
    IF \E i \in 1..26 : UpperSeq[i] = c
    THEN LowerSeq[CHOOSE i \in 1..26 : UpperSeq[i] = c]
    ELSE c

\* str.lower()
Lower(s) == [i \in 1..Len(s) |-> LowerChar(s[i])]

\* s[i:] and s[:i-1] with 1-based i.
From(s, i) == SubSeq(s, i, Len(s))
Upto(s, i) == SubSeq(s, 1, i)

\* s[i:].startswith(p), 1-based i.
StartsWithAt(s, i, p) ==
    /\ i + Len(p) - 1 <= Len(s)
    /\ \A k \in 1..Len(p) : s[i + k - 1] = p[k]

\* s.endswith(p)
EndsWith(s, p) ==
    /\ Len(p) <= Len(s)
    /\ StartsWithAt(s, Len(s) - Len(p) + 1, p)

\* Python's `p in s` for strings.
Contains(s, p) == \E i \in 1..(Len(s) - Len(p) + 1) : StartsWithAt(s, i, p)

\* The first index j >= i with s[j] in the set cs, or 0.
FirstIn(s, i, cs) ==
    IF \E j \in i..Len(s) : s[j] \in cs
    THEN CHOOSE j \in i..Len(s) :
            s[j] \in cs /\ \A k \in i..(j - 1) : s[k] \notin cs
    ELSE 0

\* The end of the maximal run of characters of cs that starts at i
\* (i - 1 when s[i] is not in cs).
RunEnd(s, i, cs) ==
    LET stop == FirstIn(s, i, {s[j] : j \in i..Len(s)} \ cs)
    IN  IF stop = 0 THEN Len(s) ELSE stop - 1

\* str.strip()
Strip(s) ==
    LET ws == {i \in 1..Len(s) : s[i] \notin Whitespace}
    IN  IF ws = {} THEN <<>>
        ELSE SubSeq(s, CHOOSE i \in ws : \A j \in ws : i <= j,
                       CHOOSE i \in ws : \A j \in ws : i >= j)

\* text.split("/")[-1]
AfterLastSlash(s) ==
    LET sl == {i \in 1..Len(s) : s[i] = "/"}
    IN  IF sl = {} THEN s
        ELSE From(s, (CHOOSE i \in sl : \A j \in sl : i >= j) + 1)

\* text.split("/", 1)[1], for a text that holds a "/".
AfterFirstSlash(s) == From(s, FirstIn(s, 1, {"/"}) + 1)

(***************************************************************************)
(* clean (lines 273-279)                                                   *)
(***************************************************************************)
\* The end of the match of <.*?> at i, or 0: "." does not match a newline
\* and the match is lazy, so it ends at the first ">" after i, if no newline
\* comes before it.
HtmlTagEnd(s, i) ==
    IF i > Len(s) \/ s[i] # "<" THEN 0
    ELSE LET j == FirstIn(s, i + 1, {">", "\n"})
         IN  IF j # 0 /\ s[j] = ">" THEN j ELSE 0

RECURSIVE StripHtmlFrom(_, _)
StripHtmlFrom(s, i) ==
    IF i > Len(s) THEN <<>>
    ELSE LET e == HtmlTagEnd(s, i)
         IN  IF e # 0 THEN StripHtmlFrom(s, e + 1)
             ELSE <<s[i]>> \o StripHtmlFrom(s, i + 1)

\* re.sub(r"<.*?>", "", text)
StripHtml(s) == StripHtmlFrom(s, 1)

\* The end of the match of \s*\(.*?\)\s* at i, or 0.
ParenHintEnd(s, i) ==
    IF i > Len(s) THEN 0
    ELSE LET open == RunEnd(s, i, Whitespace) + 1
         IN  IF open > Len(s) \/ s[open] # "(" THEN 0
             ELSE LET j == FirstIn(s, open + 1, {")", "\n"})
                  IN  IF j # 0 /\ s[j] = ")"
                      THEN RunEnd(s, j + 1, Whitespace)
                      ELSE 0

RECURSIVE DropHintsFrom(_, _)
DropHintsFrom(s, i) ==
    IF i > Len(s) THEN <<>>
    ELSE LET e == ParenHintEnd(s, i)
         IN  IF e # 0 THEN DropHintsFrom(s, e + 1)
             ELSE <<s[i]>> \o DropHintsFrom(s, i + 1)

\* re.sub(r"\s*\(.*?\)\s*", "", text)
DropHints(s) == DropHintsFrom(s, 1)

clean(text) == Lower(Strip(AfterLastSlash(DropHints(StripHtml(text)))))

(***************************************************************************)
(* generate_model_variants (lines 281-341)                                 *)
(***************************************************************************)
RECURSIVE SubSeparatorsFrom(_, _, _)
SubSeparatorsFrom(s, i, rep) ==
    IF i > Len(s) THEN <<>>
    ELSE IF s[i] \in Separators
         THEN rep \o SubSeparatorsFrom(s, RunEnd(s, i, Separators) + 1, rep)
         ELSE <<s[i]>> \o SubSeparatorsFrom(s, i + 1, rep)

\* re.sub(r'[-_\s]+', rep, s)
SubSeparators(s, rep) == SubSeparatorsFrom(s, 1, rep)

IsDigitRun(s, i, j) == i <= j /\ j <= Len(s) /\ \A k \in i..j : s[k] \in Digits

\* -\d{4}(-\d{2})?(-\d{2})?$ matches at i.  No variant ends in a newline
\* (the base is stripped), so $ is the end of the string.
DateSuffixAt(s, i) ==
    /\ s[i] = "-"
    /\ IsDigitRun(s, i + 1, i + 4)
    /\ LET rest == From(s, i + 5)
           DashTwo(r, k) == r[k] = "-" /\ r[k + 1] \in Digits /\ r[k + 2] \in Digits
       IN  \/ Len(rest) = 0
           \/ Len(rest) = 3 /\ DashTwo(rest, 1)
           \/ Len(rest) = 6 /\ DashTwo(rest, 1) /\ DashTwo(rest, 4)

\* -\d+(\.\d+)?[a-z]*$ matches at i.
VersionSuffixAt(s, i) ==
    /\ s[i] = "-"
    /\ i + 1 <= Len(s) /\ s[i + 1] \in Digits
    /\ LET d == RunEnd(s, i + 1, Digits)
           f == IF d + 2 <= Len(s) /\ s[d + 1] = "." /\ s[d + 2] \in Digits
                THEN RunEnd(s, d + 2, Digits) ELSE d
       IN  \A k \in (f + 1)..Len(s) : s[k] \in LowerLetters

\* re.sub(<a pattern that ends in $>, '', s): the leftmost match is cut off.
\* hits are the places where the pattern matches.
CutAtLeftmost(s, hits) ==
    IF hits = {} THEN s
    ELSE Upto(s, (CHOOSE i \in hits : \A j \in hits : i <= j) - 1)

NoDate(s) == CutAtLeftmost(s, {i \in 1..Len(s) : DateSuffixAt(s, i)})
NoVersion(s) == CutAtLeftmost(s, {i \in 1..Len(s) : VersionSuffixAt(s, i)})

ChatSuffixes ==
    { <<"-", "i", "n", "s", "t", "r", "u", "c", "t">>,
      <<"-", "c", "h", "a", "t">>,
      <<"-", "p", "r", "e", "v", "i", "e", "w">>,
      <<"-", "t", "u", "r", "b", "o">> }

\* re.sub(r'-(instruct|chat|preview|turbo)$', '', s)
NoSuffix(s) ==
    IF \E x \in ChatSuffixes : EndsWith(s, x)
    THEN Upto(s, Len(s) - Len(CHOOSE x \in ChatSuffixes : EndsWith(s, x)))
    ELSE s

GLM == <<"g", "l", "m">>
CLAUDE == <<"c", "l", "a", "u", "d", "e">>
QWEN == <<"q", "w", "e", "n">>

\* The end of the match of glm-?(\d+\.?\d*) at i, or 0, and the start of
\* its group.
GlmGroupStart(s, i) ==
    IF i + 3 <= Len(s) /\ s[i + 3] = "-" /\ i + 4 <= Len(s) /\ s[i + 4] \in Digits
    THEN i + 4 ELSE i + 3

GlmEnd(s, i) ==
    IF ~StartsWithAt(s, i, GLM) THEN 0
    ELSE LET g == GlmGroupStart(s, i)
         IN  IF g > Len(s) \/ s[g] \notin Digits THEN 0
             ELSE LET d == RunEnd(s, g, Digits)
                  IN  IF d + 1 <= Len(s) /\ s[d + 1] = "."
                      THEN RunEnd(s, d + 2, Digits) ELSE d

RECURSIVE SubGlmFrom(_, _, _)
SubGlmFrom(s, i, sep) ==
    IF i > Len(s) THEN <<>>
    ELSE LET e == GlmEnd(s, i)
         IN  IF e # 0
             THEN GLM \o sep \o SubSeq(s, GlmGroupStart(s, i), e)
                      \o SubGlmFrom(s, e + 1, sep)
             ELSE <<s[i]>> \o SubGlmFrom(s, i + 1, sep)

\* re.sub(r'glm-?(\d+\.?\d*)', 'glm' + sep + r'\1', s)
SubGlm(s, sep) == SubGlmFrom(s, 1, sep)

\* group(1) of re.match(r'claude-?(.+)', s), or <<>> when there is no match:
\* "." matches no newline, and -? gives its dash back when nothing follows.
ClaudeGroup(s) ==
    IF ~StartsWithAt(s, 1, CLAUDE) THEN <<>>
    ELSE LET g == IF 8 <= Len(s) /\ s[7] = "-" /\ s[8] # "\n" THEN 8 ELSE 7
         IN  SubSeq(s, g, RunEnd(s, g, {s[k] : k \in 1..Len(s)} \ {"\n"}))

RECURSIVE SplitOn(_, _)
\* s.split(c)
SplitOn(s, c) ==
    LET j == FirstIn(s, 1, {c})
    IN  IF j = 0 THEN <<s>>
        ELSE <<Upto(s, j - 1)>> \o SplitOn(From(s, j + 1), c)

RECURSIVE JoinReversed(_, _)
\* c.join(reversed(parts))
JoinReversed(parts, c) ==
    IF Len(parts) = 1 THEN parts[1]
    ELSE JoinReversed(Tail(parts), c) \o <<c>> \o parts[1]

\* The end of the match of -\d+b(-a\d+b)? at i, or 0.
SizeEnd(s, i) ==
    IF ~(i + 1 <= Len(s) /\ s[i] = "-" /\ s[i + 1] \in Digits) THEN 0
    ELSE LET d == RunEnd(s, i + 1, Digits)
         IN  IF ~(d + 1 <= Len(s) /\ s[d + 1] = "b") THEN 0
             ELSE LET b == d + 1
                      a == IF b + 3 <= Len(s) /\ s[b + 1] = "-" /\ s[b + 2] = "a"
                              /\ s[b + 3] \in Digits
                           THEN RunEnd(s, b + 3, Digits) ELSE 0
                  IN  IF a # 0 /\ a + 1 <= Len(s) /\ s[a + 1] = "b"
                      THEN a + 1 ELSE b

RECURSIVE DropSizesFrom(_, _)
DropSizesFrom(s, i) ==
    IF i > Len(s) THEN <<>>
    ELSE LET e == SizeEnd(s, i)
         IN  IF e # 0 THEN DropSizesFrom(s, e + 1)
             ELSE <<s[i]>> \o DropSizesFrom(s, i + 1)

\* re.sub(r'-\d+b(-a\d+b)?', '', s)
DropSizes(s) == DropSizesFrom(s, 1)

ProviderPrefixes ==
    { <<"o", "p", "e", "n", "a", "i", "/">>,
      <<"a", "n", "t", "h", "r", "o", "p", "i", "c", "/">>,
      <<"g", "o", "o", "g", "l", "e", "/">>,
      <<"m", "e", "t", "a", "/">>,
      <<"q", "w", "e", "n", "/">>,
      <<"z", "-", "a", "i", "/">>,
      <<"z", "h", "i", "p", "u", "a", "i", "/">> }

\* Lines 288-301: the base name, its prefix-less forms and its separator
\* forms.
BaseVariants(base) ==
    {base}
      \cup {From(base, Len(p) + 1) : p \in {q \in ProviderPrefixes : StartsWithAt(base, 1, q)}}
      \cup {SubSeparators(base, <<"-">>), SubSeparators(base, <<>>),
            SubSeparators(base, <<"_">>)}

\* Lines 303-315: over a snapshot of the set.
SuffixVariants(vs) ==
    vs \cup {NoDate(v) : v \in vs} \cup {NoVersion(v) : v \in vs}
       \cup {NoSuffix(v) : v \in vs}

\* Lines 317-339: what one variant of the snapshot adds.
FamilyVariantsOf(v) ==
    (IF Contains(v, GLM) THEN {SubGlm(v, <<"-">>), SubGlm(v, <<>>)} ELSE {})
      \cup
    (IF Contains(v, CLAUDE) /\ ClaudeGroup(v) # <<>>
           /\ Len(SplitOn(ClaudeGroup(v), "-")) >= 2
     THEN {CLAUDE \o <<"-">> \o JoinReversed(SplitOn(ClaudeGroup(v), "-"), "-")}
     ELSE {})
      \cup
    (IF Contains(v, QWEN) THEN {v, DropSizes(v)} ELSE {})

FamilyVariants(vs) == vs \cup UNION {FamilyVariantsOf(v) : v \in vs}

\* The set that generate_model_variants returns as a list; the order of the
\* list is the iteration order of a Python set of strings.
generate_model_variants(text) ==
    FamilyVariants(SuffixVariants(BaseVariants(clean(text))))

(***************************************************************************)
(* Values                                                                  *)
(*                                                                         *)
(* A cell of a DataFrame, a JSON value or a Python value is NaN (pandas'   *)
(* NaN and Python's None), a number or a string.  A number is the decimal  *)
(* m * 10^e, so that the per-token costs (1.5e-05) and their products with *)
(* 1,000,000 are exact and stay within TLC's integers.                     *)
(***************************************************************************)
NaN == [t |-> "nan"]
Str(s) == [t |-> "str", s |-> s]

RECURSIVE Canon(_, _)
\* The one representation of m * 10^e used for it: no trailing zero in m.
Canon(m, e) ==
    IF m = 0 THEN [t |-> "num", m |-> 0, e |-> 0]
    ELSE IF m % 10 = 0 THEN Canon(m \div 10, e + 1)
    ELSE [t |-> "num", m |-> m, e |-> e]

Num(m, e) == Canon(m, e)

IsNum(v) == v.t = "num"
IsStr(v) == v.t = "str"
notna(v) == v # NaN

\* v > 0 on a pandas column: False for NaN.
Positive(v) == IsNum(v) /\ v.m > 0

RECURSIVE Pow10(_)
Pow10(k) == IF k <= 0 THEN 1 ELSE 10 * Pow10(k - 1)

\* a < b for numbers.
NumLess(a, b) ==
    LET lo == IF a.e < b.e THEN a.e ELSE b.e
    IN  a.m * Pow10(a.e - lo) < b.m * Pow10(b.e - lo)

DigitSeq == <<"0", "1", "2", "3", "4", "5", "6", "7", "8", "9">>

DigitValue(c) == (CHOOSE i \in 1..10 : DigitSeq[i] = c) - 1

RECURSIVE DigitsToInt(_)
DigitsToInt(s) ==
    IF s = <<>> THEN 0
    ELSE 10 * DigitsToInt(Upto(s, Len(s) - 1)) + DigitValue(s[Len(s)])

RECURSIVE IntToDigits(_)
IntToDigits(n) ==
    IF n < 10 THEN <<DigitSeq[n + 1]>>
    ELSE IntToDigits(n \div 10) \o <<DigitSeq[(n % 10) + 1]>>

\* Whether float(s) / pd.to_numeric accepts the text: the decimal forms
\* ddd, ddd.ddd, .ddd and ddd. are the numeric texts of the model; every
\* other text of the model ("abc", "-") is rejected by both.
IsNumericText(s) ==
    LET dots == {i \in 1..Len(s) : s[i] = "."}
    IN  /\ Cardinality(dots) <= 1
        /\ \A i \in 1..Len(s) : s[i] \in Digits \cup {"."}
        /\ \E i \in 1..Len(s) : s[i] \in Digits

\* float(s) of a numeric text.
ParseFloat(s) ==
    LET dot == FirstIn(s, 1, {"."})
        int == IF dot = 0 THEN s ELSE Upto(s, dot - 1)
        frac == IF dot = 0 THEN <<>> ELSE From(s, dot + 1)
    IN  Num(DigitsToInt(int \o frac), 0 - Len(frac))

\* Python's truth of a value: None, 0 and '' are false.
Truthy(v) ==
    CASE v.t = "nan" -> FALSE
      [] v.t = "num" -> v.m # 0
      [] v.t = "str" -> v.s # <<>>

\* float(v) raises ValueError.
FloatRaises(v) == v.t = "str" /\ ~IsNumericText(v.s)

\* float(v) where it does not raise.
Float(v) == IF v.t = "str" THEN ParseFloat(v.s) ELSE v

(***************************************************************************)
(* Python dicts: sequences of [key, data], unique keys, insertion order.   *)
(***************************************************************************)
DictKeys(d) == {d[i].key : i \in 1..Len(d)}

DictHas(d, k) == \E i \in 1..Len(d) : d[i].key = k

DictGet(d, k) == d[CHOOSE i \in 1..Len(d) : d[i].key = k].data

\* d[k] = v: a new key is appended, an old one keeps its place.
DictPut(d, k, v) ==
    IF DictHas(d, k)
    THEN [i \in 1..Len(d) |-> IF d[i].key = k THEN [key |-> k, data |-> v] ELSE d[i]]
    ELSE Append(d, [key |-> k, data |-> v])

(***************************************************************************)
(* fetch_openrouter_pricing (lines 143-245)                                *)
(*                                                                         *)
(* A payload is the list under 'data': entries [id, canonical_slug,        *)
(* hugging_face_id, prompt, completion]; id, slug and hugging-face id are   *)
(* strings, <<>> for a missing, null or empty one; the two prices are      *)
(* values (NaN for a missing or null one).                                  *)
(***************************************************************************)
FREE == <<":", "f", "r", "e", "e">>

RECURSIVE ReplaceAllFrom(_, _, _, _)
ReplaceAllFrom(s, i, old, new) ==
    IF i > Len(s) THEN <<>>
    ELSE IF StartsWithAt(s, i, old)
         THEN new \o ReplaceAllFrom(s, i + Len(old), old, new)
         ELSE <<s[i]>> \o ReplaceAllFrom(s, i + 1, old, new)

\* s.replace(old, new), old not empty
ReplaceAll(s, old, new) == ReplaceAllFrom(s, 1, old, new)

RECURSIVE CollectAllModels(_, _)
\* Lines 151-159: all_models after the first pass over the first n entries.
CollectAllModels(payload, n) ==
    IF n = 0 THEN <<>>
    ELSE LET d == CollectAllModels(payload, n - 1)
         IN  IF payload[n].id = <<>> THEN d
             ELSE DictPut(d, payload[n].id, payload[n])

\* Lines 170-174: the entry is skipped as a free model with a paid version.
SkippedAsFree(all_models, model_id) ==
    /\ Contains(model_id, FREE)
    /\ DictHas(all_models, ReplaceAll(model_id, FREE, <<>>))

\* Lines 188-189
PriceOf(raw) == IF Truthy(raw) THEN Float(raw) ELSE NaN

PriceRaises(raw) == Truthy(raw) /\ FloatRaises(raw)

\* Lines 198-208
ModelData(model) ==
    [ input_cost_per_token |-> PriceOf(model.prompt),
      output_cost_per_token |-> PriceOf(model.completion),
      litellm_provider |-> Str(<<"o", "p", "e", "n", "r", "o", "u", "t", "e", "r">>),
      openrouter_id |-> Str(model.id),
      canonical_slug |-> Str(Lower(model.canonical_slug)),
      hugging_face_id |-> Str(Lower(model.hugging_face_id)) ]

\* Lines 210-226: the identifiers one kept entry is stored under, in order.
IdentifiersOf(model) ==
    LET id == Lower(model.id)
        slug == Lower(model.canonical_slug)
        hf == Lower(model.hugging_face_id)
    IN  <<id>>
          \o (IF Contains(id, <<"/">>) THEN <<AfterFirstSlash(id)>> ELSE <<>>)
          \o (IF slug # <<>> /\ slug # id
              THEN <<slug>> \o (IF Contains(slug, <<"/">>)
                                THEN <<AfterFirstSlash(slug)>> ELSE <<>>)
              ELSE <<>>)
          \o (IF hf # <<>> /\ hf # id /\ hf # slug THEN <<hf>> ELSE <<>>)

RECURSIVE PutAll(_, _, _)
PutAll(d, keys, v) ==
    IF keys = <<>> THEN d ELSE PutAll(DictPut(d, Head(keys), v), Tail(keys), v)

\* Line 197
HasPrice(model) ==
    notna(PriceOf(model.prompt)) \/ notna(PriceOf(model.completion))

RECURSIVE ConvertModels(_, _)
\* Lines 167-226: openrouter_models after the second pass over the first n
\* entries of all_models.
ConvertModels(all_models, n) ==
    IF n = 0 THEN <<>>
    ELSE LET d == ConvertModels(all_models, n - 1)
             model == all_models[n].data
         IN  IF SkippedAsFree(all_models, all_models[n].key) THEN d
             ELSE IF HasPrice(model) THEN PutAll(d, IdentifiersOf(model), ModelData(model))
             ELSE d

\* Lines 185-189 raise for an entry the second pass reaches: float() of a
\* text that is no number.
ConvertRaises(all_models) ==
    \E n \in 1..Len(all_models) :
        /\ ~SkippedAsFree(all_models, all_models[n].key)
        /\ PriceRaises(all_models[n].data.prompt) \/ PriceRaises(all_models[n].data.completion)

\* The mapping the function returns for a response: resp.ok is FALSE for a
\* request that raised (status, timeout, connection, a body that is no
\* JSON); every exception ends in `return {}` (lines 243-245).
fetch_openrouter_pricing(resp) ==
    IF ~resp.ok THEN <<>>
    ELSE LET all_models == CollectAllModels(resp.data, Len(resp.data))
         IN  IF ConvertRaises(all_models) THEN <<>>
             ELSE ConvertModels(all_models, Len(all_models))

(***************************************************************************)
(* DataFrames: [cols, rows], rows a sequence of functions from the column  *)
(* names to values.  The order of the columns is not modelled.             *)
(***************************************************************************)
\* The characters of the column names, for the substring test of line 569.
ColumnChars ==
       "Model" :> <<"M", "o", "d", "e", "l">>
    @@ "Arena Score" :> <<"A", "r", "e", "n", "a", " ", "S", "c", "o", "r", "e">>
    @@ "Rank* (UB)" :> <<"R", "a", "n", "k", "*", " ", "(", "U", "B", ")">>
    @@ "matched_model" :> <<"m", "a", "t", "c", "h", "e", "d", "_", "m", "o", "d", "e", "l">>
    @@ "model" :> <<"m", "o", "d", "e", "l">>
    @@ "litellm_provider" :> <<"l", "i", "t", "e", "l", "l", "m", "_", "p", "r", "o", "v", "i", "d", "e", "r">>
    @@ "openrouter_id" :> <<"o", "p", "e", "n", "r", "o", "u", "t", "e", "r", "_", "i", "d">>
    @@ "canonical_slug" :> <<"c", "a", "n", "o", "n", "i", "c", "a", "l", "_", "s", "l", "u", "g">>
    @@ "hugging_face_id" :> <<"h", "u", "g", "g", "i", "n", "g", "_", "f", "a", "c", "e", "_", "i", "d">>
    @@ "input_cost_per_token" :> <<"i", "n", "p", "u", "t", "_", "c", "o", "s", "t", "_", "p", "e", "r", "_", "t", "o", "k", "e", "n">>
    @@ "output_cost_per_token" :> <<"o", "u", "t", "p", "u", "t", "_", "c", "o", "s", "t", "_", "p", "e", "r", "_", "t", "o", "k", "e", "n">>
    @@ "output_cost_per_reasoning_token" :> <<"o", "u", "t", "p", "u", "t", "_", "c", "o", "s", "t", "_", "p", "e", "r", "_", "r", "e", "a", "s", "o", "n", "i", "n", "g", "_", "t", "o", "k", "e", "n">>
    @@ "input_cost_per_token_batches" :> <<"i", "n", "p", "u", "t", "_", "c", "o", "s", "t", "_", "p", "e", "r", "_", "t", "o", "k", "e", "n", "_", "b", "a", "t", "c", "h", "e", "s">>
    @@ "output_cost_per_token_batches" :> <<"o", "u", "t", "p", "u", "t", "_", "c", "o", "s", "t", "_", "p", "e", "r", "_", "t", "o", "k", "e", "n", "_", "b", "a", "t", "c", "h", "e", "s">>
    @@ "input_cost_per_million_tokens ($)" :> <<"i", "n", "p", "u", "t", "_", "c", "o", "s", "t", "_", "p", "e", "r", "_", "m", "i", "l", "l", "i", "o", "n", "_", "t", "o", "k", "e", "n", "s", " ", "(", "$", ")">>
    @@ "output_cost_per_million_tokens ($)" :> <<"o", "u", "t", "p", "u", "t", "_", "c", "o", "s", "t", "_", "p", "e", "r", "_", "m", "i", "l", "l", "i", "o", "n", "_", "t", "o", "k", "e", "n", "s", " ", "(", "$", ")">>
    @@ "output_cost_per_reasoning_per_million_tokens ($)" :> <<"o", "u", "t", "p", "u", "t", "_", "c", "o", "s", "t", "_", "p", "e", "r", "_", "r", "e", "a", "s", "o", "n", "i", "n", "g", "_", "p", "e", "r", "_", "m", "i", "l", "l", "i", "o", "n", "_", "t", "o", "k", "e", "n", "s", " ", "(", "$", ")">>
    @@ "input_cost_per_million_tokens_batches ($)" :> <<"i", "n", "p", "u", "t", "_", "c", "o", "s", "t", "_", "p", "e", "r", "_", "m", "i", "l", "l", "i", "o", "n", "_", "t", "o", "k", "e", "n", "s", "_", "b", "a", "t", "c", "h", "e", "s", " ", "(", "$", ")">>
    @@ "output_cost_per_million_tokens_batches ($)" :> <<"o", "u", "t", "p", "u", "t", "_", "c", "o", "s", "t", "_", "p", "e", "r", "_", "m", "i", "l", "l", "i", "o", "n", "_", "t", "o", "k", "e", "n", "s", "_", "b", "a", "t", "c", "h", "e", "s", " ", "(", "$", ")">>

\* pd.DataFrame(list of dicts): the columns are the union of the keys, a
\* missing key is NaN.
DataFrame(dicts) ==
    LET cols == UNION {DOMAIN dicts[i] : i \in 1..Len(dicts)}
    IN  [cols |-> cols,
         rows |-> [i \in 1..Len(dicts) |->
                     [c \in cols |-> IF c \in DOMAIN dicts[i] THEN dicts[i][c] ELSE NaN]]]

\* Lines 263-270 and 374-381: dict(model=k, **v) for every item.
ModelDf(info) ==
    DataFrame([i \in 1..Len(info) |-> ("model" :> Str(info[i].key)) @@ info[i].data])

\* pd.to_numeric(x, errors='coerce') on one cell.
to_numeric(v) ==
    CASE v.t = "num" -> v
      [] v.t = "str" -> IF IsNumericText(v.s) THEN ParseFloat(v.s) ELSE NaN
      [] OTHER -> NaN

(***************************************************************************)
(* Lines 258-261 and 367-369: OpenRouter entries fill the gaps of          *)
(* model_info.                                                             *)
(***************************************************************************)
RECURSIVE MergeOverwriting(_, _)
\* The merge without the test of line 260.
MergeOverwriting(info, extra) ==
    IF extra = <<>> THEN info
    ELSE MergeOverwriting(DictPut(info, Head(extra).key, Head(extra).data), Tail(extra))

RECURSIVE MergeMissing(_, _)
MergeMissing(info, extra) ==
    IF extra = <<>> THEN info
    ELSE MergeMissing(
           IF DictHas(info, Head(extra).key) THEN info
           ELSE DictPut(info, Head(extra).key, Head(extra).data),
           Tail(extra))

(***************************************************************************)
(* create_matching_index (lines 343-355) and find_best_match (405-413)     *)
(***************************************************************************)
\* The variants of the model of row i that line 352 lets into the index.
IndexVariants(rows, i) == generate_model_variants(rows[i].model.s) \ {<<>>}

create_matching_index(frame) ==
    LET rows == frame.rows
        keys == UNION {IndexVariants(rows, i) : i \in 1..Len(rows)}
        First(v) == CHOOSE i \in 1..Len(rows) :
                       /\ v \in IndexVariants(rows, i)
                       /\ \A j \in 1..(i - 1) : v \notin IndexVariants(rows, j)
    IN  [v \in keys |-> rows[First(v)].model]

\* What find_best_match can return for a name: the index entry of the
\* first variant, in the order of list(variants), that is a key.  The list
\* is in the iteration order of a set of strings, which is not fixed by the
\* program, so each variant that is a key can be the first.
MatchCandidates(index, name) ==
    LET hits == generate_model_variants(name) \cap DOMAIN index
    IN  IF hits = {} THEN {NaN} ELSE {index[v] : v \in hits}

(***************************************************************************)
(* select_best_pricing_row (lines 465-498); group is a non-empty sequence  *)
(* of rows in catalog order.                                               *)
(***************************************************************************)
primary_providers ==
    << Str(<<"o", "p", "e", "n", "a", "i">>),
       Str(<<"a", "n", "t", "h", "r", "o", "p", "i", "c">>),
       Str(<<"v", "e", "r", "t", "e", "x", "_", "a", "i", "-", "l", "a", "n", "g", "u", "a", "g", "e", "-", "m", "o", "d", "e", "l", "s">>),
       Str(<<"g", "e", "m", "i", "n", "i">>),
       Str(<<"o", "p", "e", "n", "r", "o", "u", "t", "e", "r">>) >>

\* The first test without its comparison with zero.
HasBothCostsOrZero(row) ==
    notna(row["input_cost_per_token"]) /\ notna(row["output_cost_per_token"])

HasBothCostsNonzero(row) ==
    /\ notna(row["input_cost_per_token"])
    /\ notna(row["output_cost_per_token"])
    /\ Positive(row["input_cost_per_token"])
    /\ Positive(row["output_cost_per_token"])

HasBothCosts(row) ==
    notna(row["input_cost_per_token"]) /\ notna(row["output_cost_per_token"])

HasInputCost(row) == notna(row["input_cost_per_token"])

HasPrimaryProvider(row) ==
    \E i \in 1..Len(primary_providers) :
        primary_providers[i] = row["litellm_provider"]

\* A selection that ranks the listed providers by their place in the list.
select_by_listed_order(group) ==
    LET has_both_costs_nonzero == SelectSeq(group, HasBothCostsNonzero)
        primary_matches == SelectSeq(has_both_costs_nonzero, HasPrimaryProvider)
        has_both_costs == SelectSeq(group, HasBothCosts)
        has_input_cost == SelectSeq(group, HasInputCost)
        Place(row) == CHOOSE i \in 1..Len(primary_providers) :
                          primary_providers[i] = row["litellm_provider"]
        earliest == CHOOSE k \in 1..Len(primary_matches) :
                       \A j \in 1..Len(primary_matches) :
                          \/ Place(primary_matches[k]) < Place(primary_matches[j])
                          \/ /\ Place(primary_matches[k]) = Place(primary_matches[j])
                             /\ k <= j
    IN  IF has_both_costs_nonzero # <<>>
        THEN IF primary_matches # <<>> THEN primary_matches[earliest]
             ELSE has_both_costs_nonzero[1]
        ELSE IF has_both_costs # <<>> THEN has_both_costs[1]
        ELSE IF has_input_cost # <<>> THEN has_input_cost[1]
        ELSE group[1]

select_best_pricing_row(group) ==
    LET has_both_costs_nonzero == SelectSeq(group, HasBothCostsNonzero)
        primary_matches == SelectSeq(has_both_costs_nonzero, HasPrimaryProvider)
        has_both_costs == SelectSeq(group, HasBothCosts)
        has_input_cost == SelectSeq(group, HasInputCost)
    IN  IF has_both_costs_nonzero # <<>>
        THEN IF primary_matches # <<>> THEN primary_matches[1]
             ELSE has_both_costs_nonzero[1]
        ELSE IF has_both_costs # <<>> THEN has_both_costs[1]
        ELSE IF has_input_cost # <<>> THEN has_input_cost[1]
        ELSE group[1]

RECURSIVE DistinctModels(_)
\* The distinct values of the 'model' column, each at its first place.
DistinctModels(rows) ==
    IF rows = <<>> THEN <<>>
    ELSE LET rest == DistinctModels(Upto(rows, Len(rows) - 1))
             m == rows[Len(rows)].model
         IN  IF \E i \in 1..Len(rest) : rest[i] = m THEN rest ELSE Append(rest, m)

\* The rows a left join pairs a key with: those of the right frame, in its
\* order, whose 'model' is the key; a missing key pairs with none.
RowsOfModel(rows, m) ==
    LET Same(r) == notna(m) /\ r.model = m
    IN  SelectSeq(rows, Same)

\* Line 501: model_df.groupby('model').apply(select_best_pricing_row).  The
\* groups come in the order of their keys; the model lists them in the
\* order of first appearance, which no later statement observes.
GroupBest(frame) ==
    LET keys == DistinctModels(frame.rows)
    IN  [cols |-> frame.cols,
         rows |-> [k \in 1..Len(keys) |->
                     select_best_pricing_row(RowsOfModel(frame.rows, keys[k]))]]

(***************************************************************************)
(* The left join of lines 506-515                                          *)
(***************************************************************************)
RECURSIVE LeftJoinRows(_, _)
LeftJoinRows(left, right) ==
    IF left = <<>> THEN <<>>
    ELSE LET l == Head(left)
             found == RowsOfModel(right.rows, l["matched_model"])
             blank == [c \in right.cols |-> NaN]
             paired == IF found = <<>> THEN <<blank>> ELSE found
         IN  [k \in 1..Len(paired) |-> paired[k] @@ l] \o LeftJoinRows(Tail(left), right)

\* df.merge(right, left_on='matched_model', right_on='model', how='left'),
\* then line 515: model = model.fillna(matched_model).
LeftJoin(left, right) ==
    LET rows == LeftJoinRows(left.rows, right)
    IN  [cols |-> left.cols \cup right.cols,
         rows |-> [k \in 1..Len(rows) |->
                     [rows[k] EXCEPT !["model"] =
                        IF notna(@) THEN @ ELSE rows[k]["matched_model"]]]]

(***************************************************************************)
(* Per-token to per-million columns (lines 530-557) and format_cost        *)
(* (lines 569-599)                                                         *)
(***************************************************************************)
PerMillionColumns ==
    << <<"input_cost_per_token", "input_cost_per_million_tokens ($)">>,
       <<"output_cost_per_token", "output_cost_per_million_tokens ($)">>,
       <<"output_cost_per_reasoning_token",
         "output_cost_per_reasoning_per_million_tokens ($)">>,
       <<"input_cost_per_token_batches", "input_cost_per_million_tokens_batches ($)">>,
       <<"output_cost_per_token_batches", "output_cost_per_million_tokens_batches ($)">> >>

\* numeric_values * 1_000_000 on one cell: NaN stays NaN.
TimesMillion(v) == IF IsNum(v) THEN Num(v.m, v.e + 6) ELSE NaN

\* One turn of the loop of lines 530-557.
ConvertColumn(frame, old, new) ==
    IF old \notin frame.cols THEN frame
    ELSE LET cols == (frame.cols \ {old}) \cup {new}
         IN  [cols |-> cols,
              rows |-> [k \in 1..Len(frame.rows) |->
                          [c \in cols |->
                             IF c = new THEN TimesMillion(to_numeric(frame.rows[k][old]))
                             ELSE frame.rows[k][c]]]]

RECURSIVE ConvertColumns(_, _)
ConvertColumns(frame, n) ==
    IF n = 0 THEN frame
    ELSE ConvertColumn(ConvertColumns(frame, n - 1),
                       PerMillionColumns[n][1], PerMillionColumns[n][2])

COST_PER_MILLION == <<"c", "o", "s", "t", "_", "p", "e", "r", "_", "m", "i", "l", "l", "i", "o", "n", "_", "t", "o", "k", "e", "n", "s">>

\* Line 569
cost_columns(frame) == {c \in frame.cols : Contains(ColumnChars[c], COST_PER_MILLION)}

\* round-half-even of m * 10^e to an integer number of 1/100.  Python rounds
\* the binary double; the two agree except on exact ties of the decimal,
\* which the costs of the model do not produce.
Hundredths(v) ==
    IF v.e >= -2 THEN v.m * Pow10(v.e + 2)
    ELSE LET unit == Pow10(0 - v.e - 2)
             q == v.m \div unit
             r == v.m % unit
         IN  IF 2 * r > unit \/ (2 * r = unit /\ q % 2 = 1) THEN q + 1 ELSE q

\* f"{val:.2f}" for val >= 0
TwoDecimals(v) ==
    LET h == Hundredths(v)
    IN  IntToDigits(h \div 100) \o <<".">> \o
        <<DigitSeq[((h % 100) \div 10) + 1], DigitSeq[(h % 10) + 1]>>

\* Lines 591-597
format_cost(x) == IF x = NaN THEN Str(<<>>) ELSE Str(TwoDecimals(x))

\* Lines 579-599: every column of cost_columns becomes a column of strings.
FormatCosts(frame) ==
    [cols |-> frame.cols,
     rows |-> [k \in 1..Len(frame.rows) |->
                 [c \in frame.cols |->
                    IF c \in cost_columns(frame)
                    THEN format_cost(to_numeric(frame.rows[k][c]))
                    ELSE frame.rows[k][c]]]]

(***************************************************************************)
(* The text of a cell in the two files                                     *)
(***************************************************************************)
RECURSIVE ZeroPad(_, _)
ZeroPad(s, n) == IF Len(s) >= n THEN s ELSE ZeroPad(<<"0">> \o s, n)

\* repr of a float m * 10^e >= 0 in positional notation (60.0, 2.5, 0.004).
FloatRepr(v) ==
    IF v.e >= 0 THEN IntToDigits(v.m * Pow10(v.e)) \o <<".", "0">>
    ELSE LET unit == Pow10(0 - v.e)
         IN  IntToDigits(v.m \div unit) \o <<".">> \o
             ZeroPad(IntToDigits(v.m % unit), 0 - v.e)

\* to_csv (line 618): a missing value is written as the empty field, a
\* string as it is, a float by its repr.
CsvField(v) ==
    CASE v.t = "nan" -> <<>>
      [] v.t = "str" -> v.s
      [] v.t = "num" -> FloatRepr(v)

\* to_markdown (line 621) on a cell that holds no number: a missing value
\* is shown as nan, a string as it is.
MarkdownCell(v) ==
    CASE v.t = "nan" -> <<"n", "a", "n">>
      [] v.t = "str" -> v.s
      [] v.t = "num" -> FloatRepr(v)

\* merged.head(n)
head(frame, n) ==
    [cols |-> frame.cols,
     rows |-> IF Len(frame.rows) <= n THEN frame.rows ELSE Upto(frame.rows, n)]

(***************************************************************************)
(* The inputs of a run: what the three sources can answer                  *)
(***************************************************************************)
\* The longest leaderboard.
MaxRows == 2

\* merged.head(100), line 621
PreviewRows == 100

\* Rows of the leaderboard table as parse_leaderboard_html returns them:
\* the model cell and the arena_elo cell (None for an empty cell).
LeaderboardRows ==
    { [model |-> <<"G", "P", "T", "-", "4">>, arena_elo |-> Str(<<"1", "4", "0", "0">>)],
      [model |-> <<"C", "l", "a", "u", "d", "e", " ", "O", "p", "u", "s", " ", "4", ".", "1", " ", "(", "p", "r", "e", "v", "i", "e", "w", ")">>, arena_elo |-> Str(<<"1", "4", "0", "0">>)],
      [model |-> <<"M", "y", "s", "t", "e", "r", "y">>, arena_elo |-> NaN],
      [model |-> <<"o", "1">>, arena_elo |-> Str(<<"-">>)],
      [model |-> <<"G", "L", "M", " ", "4", ".", "5">>, arena_elo |-> Str(<<"1", "3", "5", "0">>)] }

Leaderboards == UNION {[1..n -> LeaderboardRows] : n \in 0..MaxRows}

\* Answers of the LiteLLM catalog: two ids that clean to the same id, an
\* entry with reasoning and batch costs, an entry without prices, a catalog
\* whose entries have no cost field, and the empty catalog.
LiteLLMCatalogs ==
    { << [key |-> <<"g", "p", "t", "-", "4">>,
          data |-> [input_cost_per_token |-> Num(3, -5),
                    output_cost_per_token |-> Num(6, -5),
                    litellm_provider |-> Str(<<"o", "p", "e", "n", "a", "i">>)]],
         [key |-> <<"a", "z", "u", "r", "e", "/", "g", "p", "t", "-", "4">>,
          data |-> [input_cost_per_token |-> Num(31, -6),
                    output_cost_per_token |-> Num(62, -6),
                    litellm_provider |-> Str(<<"a", "z", "u", "r", "e">>)]],
         [key |-> <<"o", "1">>,
          data |-> [input_cost_per_token |-> Num(15, -6),
                    output_cost_per_token |-> Num(6, -5),
                    output_cost_per_reasoning_token |-> Num(6, -5),
                    input_cost_per_token_batches |-> Num(75, -7),
                    output_cost_per_token_batches |-> Num(3, -5),
                    litellm_provider |-> Str(<<"o", "p", "e", "n", "a", "i">>)]] >>,
      << [key |-> <<"a", "z", "u", "r", "e", "/", "g", "p", "t", "-", "4">>,
          data |-> [input_cost_per_token |-> Num(0, 0),
                    output_cost_per_token |-> Num(0, 0),
                    litellm_provider |-> Str(<<"a", "z", "u", "r", "e">>)]],
         [key |-> <<"a", "n", "t", "h", "r", "o", "p", "i", "c", "/", "c", "l", "a", "u", "d", "e", "-", "o", "p", "u", "s", "-", "4", ".", "1">>,
          data |-> [input_cost_per_token |-> Num(15, -6),
                    output_cost_per_token |-> Num(75, -6),
                    litellm_provider |-> Str(<<"a", "n", "t", "h", "r", "o", "p", "i", "c">>)]],
         [key |-> <<"o", "1">>,
          data |-> [litellm_provider |-> Str(<<"o", "p", "e", "n", "a", "i">>)]] >>,
      << [key |-> <<"s", "a", "m", "p", "l", "e", "_", "s", "p", "e", "c">>,
          data |-> [litellm_provider |-> Str(<<"a", "z", "u", "r", "e">>)]] >>,
      << >> }

\* Bodies of the OpenRouter answer: a paid model whose prefix-less id is an
\* id of LiteLLM, a free model with its paid sibling; and a body with a
\* price that is no number.
OpenRouterPayloads ==
    { << [id |-> <<"o", "p", "e", "n", "a", "i", "/", "g", "p", "t", "-", "4">>, canonical_slug |-> <<"o", "p", "e", "n", "a", "i", "/", "g", "p", "t", "-", "4">>,
          hugging_face_id |-> <<>>,
          prompt |-> Str(<<"0", ".", "0", "0", "0", "0", "1">>), completion |-> Str(<<"0", ".", "0", "0", "0", "0", "2">>)],
         [id |-> <<"z", "-", "a", "i", "/", "g", "l", "m", "-", "4", ".", "5", ":", "f", "r", "e", "e">>, canonical_slug |-> <<"z", "-", "a", "i", "/", "g", "l", "m", "-", "4", ".", "5">>,
          hugging_face_id |-> <<>>,
          prompt |-> Str(<<"0">>), completion |-> Str(<<"0">>)],
         [id |-> <<"z", "-", "a", "i", "/", "g", "l", "m", "-", "4", ".", "5">>, canonical_slug |-> <<"z", "-", "a", "i", "/", "g", "l", "m", "-", "4", ".", "5">>,
          hugging_face_id |-> <<>>,
          prompt |-> Str(<<"0", ".", "0", "0", "0", "0", "0", "0", "6">>), completion |-> Str(<<"0", ".", "0", "0", "0", "0", "0", "2", "2">>)] >>,
      << [id |-> <<"x", "/", "m", "y", "s", "t", "e", "r", "y">>, canonical_slug |-> <<>>,
          hugging_face_id |-> <<>>,
          prompt |-> Str(<<"a", "b", "c">>), completion |-> NaN] >> }

NoResponse == [ok |-> FALSE, data |-> <<>>]

Sources == {"leaderboard", "litellm", "openrouter"}

\* The longest payload of a call of fetch_openrouter_pricing on its own.
MaxPayload == 2

\* Entries of such a payload: a paid id, its free sibling and a free id
\* without a sibling; prices that are missing, zero, a number and no number;
\* with and without the canonical slug of the paid id.
PayloadEntries ==
    { [id |-> i, canonical_slug |-> c, hugging_face_id |-> <<>>,
       prompt |-> pr, completion |-> co] :
        i \in {<<"a", "/", "x">>, <<"a", "/", "x", ":", "f", "r", "e", "e">>,
               <<"y", ":", "f", "r", "e", "e">>},
        c \in {<<>>, <<"a", "/", "x">>},
        pr \in {NaN, Str(<<"0">>), Str(<<"0", ".", "0", "0", "0", "0", "3">>),
                Str(<<"a", "b", "c">>)},
        co \in {NaN, Str(<<"0", ".", "0", "0", "0", "0", "2">>)} }

Payloads == UNION {[1..n -> PayloadEntries] : n \in 0..MaxPayload}

\* What OpenRouter can answer to the call at a statement: no response when
\* the request raises (status, timeout, connection), or a payload.
Responses(at) ==
    {NoResponse} \cup
    {[ok |-> TRUE, data |-> d] :
        d \in IF at = "openrouter_call" THEN Payloads ELSE OpenRouterPayloads}

\* The longest group of a call of select_best_pricing_row on its own.
MaxGroup == 2

\* Rows of such a group: each cost missing, zero or positive; a provider of
\* the list, another of the list, and one that is not in it.
GroupRows ==
    { [model |-> Str(<<"g", "p", "t", "-", "4">>), input_cost_per_token |-> i,
       output_cost_per_token |-> o, litellm_provider |-> Str(pv)] :
        i \in {NaN, Num(0, 0), Num(3, -5)},
        o \in {NaN, Num(0, 0), Num(6, -5)},
        pv \in {<<"o", "p", "e", "n", "a", "i">>,
                <<"a", "n", "t", "h", "r", "o", "p", "i", "c">>,
                <<"a", "z", "u", "r", "e">>} }

\* The groups: the rows in catalog order, each with the label of its row in
\* model_df (the index of the DataFrame), which tells equal rows apart.
Groups ==
    { [k \in 1..Len(f) |-> ("index" :> Num(k, 0)) @@ f[k]] :
        f \in UNION {[1..n -> GroupRows] : n \in 1..MaxGroup} }

\* The longest text given to clean on a run from the cleaning on.
MaxText == 5

\* The longest catalog of such a run.
MaxCatalog == 2

\* The texts: of the characters the patterns of clean look for, the
\* newline that "." does not match and \s does, and a capital letter.
Texts ==
    UNION {[1..n -> {"<", ">", "(", ")", "/", "\n", "A"}] : n \in 0..MaxText}

\* Leaderboard names with variants that are ids of the catalogs below.
ListedNames ==
    { <<"G", "P", "T", "-", "4", " ", "T", "u", "r", "b", "o">>,
      <<"G", "P", "T", "-", "4">>,
      <<"C", "l", "a", "u", "d", "e", " ", "O", "p", "u", "s", " ", "4", ".", "1", " ", "(", "p", "r", "e", "v", "i", "e", "w", ")">> }

\* Ids of a catalog: an id, the same id with a provider prefix, and an id
\* that differs from it by a suffix generate_model_variants removes.
CatalogIds ==
    { <<"g", "p", "t", "-", "4">>,
      <<"o", "p", "e", "n", "a", "i", "/", "g", "p", "t", "-", "4">>,
      <<"g", "p", "t", "-", "4", "-", "t", "u", "r", "b", "o">> }

\* The catalogs: dicts of at most MaxCatalog distinct ids, in any order.
NameCatalogs ==
    { [i \in 1..Len(ids) |->
          [key |-> ids[i],
           data |-> [input_cost_per_token |-> Num(3, -5),
                     output_cost_per_token |-> Num(6, -5),
                     litellm_provider |-> Str(<<"o", "p", "e", "n", "a", "i">>)]]] :
        ids \in {f \in UNION {[1..n -> CatalogIds] : n \in 0..MaxCatalog} :
                    \A i, j \in 1..Len(f) : i # j => f[i] # f[j]} }

EmptyFrame == [cols |-> {}, rows |-> <<>>]
NoFile == [state |-> "absent", frame |-> EmptyFrame]

(***************************************************************************)
(* The state of a run                                                      *)
(***************************************************************************)
VARIABLES
    pc,                 \* the statement the script is at
    requests,           \* the HTTP requests sent so far, per source
    failed,             \* the sources a request to which has failed
    raisedAt,           \* the statement that raised, "" while none has
    table,              \* the leaderboard as fetched
    df,                 \* the leaderboard frame
    primary,            \* the LiteLLM catalog as fetched
    resp,               \* the last response of OpenRouter
    openrouter_models,
    model_info,
    model_df,
    matching_index,
    model_df_best,
    merged,
    top100_md,
    csv,                \* chatbot_arena_leaderboard_with_cost.csv
    md,                 \* markdown_preview.md
    group,              \* the argument of a call of select_best_pricing_row
    best                \* and its result

vars ==
    <<pc, requests, failed, raisedAt, table, df, primary, resp, openrouter_models,
      model_info, model_df, matching_index, model_df_best, merged, top100_md,
      csv, md, group, best>>

frames == <<df, model_df, matching_index, model_df_best, merged, top100_md>>
catalogs == <<primary, resp, openrouter_models, model_info>>
files == <<csv, md>>
calls == <<group, best>>

NoRow == [index |-> NaN]

Start ==
    /\ requests = [u \in Sources |-> 0]
    /\ failed = {}
    /\ raisedAt = ""
    /\ table = <<>>
    /\ df = EmptyFrame
    /\ primary = <<>>
    /\ openrouter_models = <<>>
    /\ model_info = <<>>
    /\ model_df = EmptyFrame
    /\ matching_index = <<>>
    /\ model_df_best = EmptyFrame
    /\ merged = EmptyFrame
    /\ top100_md = EmptyFrame
    /\ csv = NoFile
    /\ md = NoFile

Init ==
    /\ pc = "scrape"
    /\ Start
    /\ resp = NoResponse
    /\ group = <<>>
    /\ best = NoRow

\* An uncaught exception ends the run.
Raise(at) ==
    /\ pc' = "aborted"
    /\ raisedAt' = at

Goto(next) ==
    /\ pc' = next
    /\ raisedAt' = raisedAt

Request(source) == requests' = [requests EXCEPT ![source] = @ + 1]

(***************************************************************************)
(* 1. The leaderboard (lines 121-141)                                      *)
(***************************************************************************)
\* requests.get or raise_for_status raises (lines 121-123).
ScrapeFails ==
    /\ pc = "scrape"
    /\ Request("leaderboard")
    /\ failed' = failed \cup {"leaderboard"}
    /\ Raise("scrape")
    /\ UNCHANGED <<table, frames, catalogs, files, calls>>

\* The page holds no table of class sortable (lines 32-33).
ScrapeNoTable ==
    /\ pc = "scrape"
    /\ Request("leaderboard")
    /\ Raise("scrape")
    /\ UNCHANGED <<failed, table, frames, catalogs, files, calls>>

\* Lines 127-136: the frame, with its columns renamed.
Scrape ==
    /\ pc = "scrape"
    /\ Request("leaderboard")
    /\ \E t \in Leaderboards :
          /\ table' = t
          /\ df' = [cols |-> {"Model", "Arena Score"},
                    rows |-> [i \in 1..Len(t) |->
                                ("Model" :> Str(t[i].model)) @@
                                ("Arena Score" :> t[i].arena_elo)]]
    /\ Goto("rank")
    /\ UNCHANGED <<failed, model_df, matching_index, model_df_best, merged,
                   top100_md, catalogs, files, calls>>

\* The order of ascending=True.
SortsBeforeAscending(a, b) ==
    \/ IsNum(a) /\ ~IsNum(b)
    \/ IsNum(a) /\ IsNum(b) /\ NumLess(a, b)

\* a is placed before b by sort_values(ascending=False, na_position='last').
SortsBefore(a, b) ==
    \/ IsNum(a) /\ ~IsNum(b)
    \/ IsNum(a) /\ IsNum(b) /\ NumLess(b, a)

\* The orders sort_values can return for the scores: the default kind is
\* quicksort, which is not stable, so rows with equal scores come in any
\* order.  The rows without a score are not passed to the sort: they are
\* appended after it in the order they have in the frame.
SortOrders(scores) ==
    {p \in Permutations(1..Len(scores)) :
        \A k, l \in 1..Len(scores) :
            k < l => /\ ~SortsBefore(scores[p[l]], scores[p[k]])
                     /\ ~IsNum(scores[p[k]]) /\ ~IsNum(scores[p[l]]) => p[k] < p[l]}

\* Lines 139-141
Rank ==
    /\ pc = "rank"
    /\ LET scores == [i \in 1..Len(df.rows) |-> to_numeric(df.rows[i]["Arena Score"])]
       IN  \E p \in SortOrders(scores) :
              df' = [cols |-> df.cols \cup {"Rank* (UB)"},
                     rows |-> [k \in 1..Len(df.rows) |->
                                 ("Model" :> df.rows[p[k]]["Model"]) @@
                                 ("Arena Score" :> scores[p[k]]) @@
                                 ("Rank* (UB)" :> Num(k, 0))]]
    /\ Goto("litellm")
    /\ UNCHANGED <<requests, failed, table, model_df, matching_index, model_df_best,
                   merged, top100_md, catalogs, files, calls>>

(***************************************************************************)
(* 2. The catalogs (lines 248-270 and 358-381)                             *)
(***************************************************************************)
\* The failure caught as that of OpenRouter is, the run going on with an
\* empty catalog.
FetchLiteLLMSwallowed ==
    /\ pc = "litellm"
    /\ Request("litellm")
    /\ failed' = failed \cup {"litellm"}
    /\ Goto("openrouter1")
    /\ UNCHANGED <<table, frames, catalogs, files, calls>>

\* requests.get or raise_for_status raises (lines 248-252).
FetchLiteLLMFails ==
    /\ pc = "litellm"
    /\ Request("litellm")
    /\ failed' = failed \cup {"litellm"}
    /\ Raise("litellm")
    /\ UNCHANGED <<table, frames, catalogs, files, calls>>

\* Line 253
FetchLiteLLM ==
    /\ pc = "litellm"
    /\ Request("litellm")
    /\ \E c \in LiteLLMCatalogs :
          /\ primary' = c
          /\ model_info' = c
    /\ Goto("openrouter1")
    /\ UNCHANGED <<failed, table, frames, resp, openrouter_models, files, calls>>

\* A call of fetch_openrouter_pricing at module level.
FetchOpenRouter(at, next) ==
    /\ pc = at
    /\ Request("openrouter")
    /\ \E r \in Responses(at) :
          /\ resp' = r
          /\ openrouter_models' = fetch_openrouter_pricing(r)
          /\ failed' = IF r.ok THEN failed ELSE failed \cup {"openrouter"}
    /\ Goto(next)
    /\ UNCHANGED <<table, frames, primary, model_info, files, calls>>

\* The merge loop and the DataFrame built after it.
MergeOpenRouter(at, next) ==
    /\ pc = at
    /\ model_info' = MergeMissing(model_info, openrouter_models)
    /\ model_df' = ModelDf(model_info')
    /\ Goto(next)
    /\ UNCHANGED <<requests, failed, table, df, matching_index, model_df_best, merged,
                   top100_md, primary, resp, openrouter_models, files, calls>>

\* Line 256
FetchOpenRouter1 == FetchOpenRouter("openrouter1", "merge1")
\* Lines 259-270
Merge1 == MergeOpenRouter("merge1", "openrouter2")
\* Line 358
FetchOpenRouter2 == FetchOpenRouter("openrouter2", "merge2")
\* Lines 367-381
Merge2 == MergeOpenRouter("merge2", "clean")

(***************************************************************************)
(* 3. and 4. Names and matching (lines 383-446)                            *)
(***************************************************************************)
CleanCell(v) == IF IsStr(v) THEN Str(clean(v.s)) ELSE v

\* frame[col].astype(str).apply(clean)
CleanColumn(frame, col) ==
    [cols |-> frame.cols,
     rows |-> [k \in 1..Len(frame.rows) |->
                 [frame.rows[k] EXCEPT ![col] = CleanCell(@)]]]

\* model_df["model"] of a frame built from no dict raises KeyError (line 384).
CleanRaises ==
    /\ pc = "clean"
    /\ "model" \notin model_df.cols
    /\ Raise("clean")
    /\ UNCHANGED <<requests, failed, table, frames, catalogs, files, calls>>

\* Lines 383-387
Clean ==
    /\ pc = "clean"
    /\ "model" \in model_df.cols
    /\ df' = CleanColumn(df, "Model")
    /\ model_df' = CleanColumn(model_df, "model")
    /\ matching_index' = create_matching_index(model_df')
    /\ Goto("match")
    /\ UNCHANGED <<requests, failed, table, model_df_best, merged, top100_md,
                   catalogs, files, calls>>

\* Line 446: one result per name; the same name gets the same result, as
\* the order of its variants is the same within a run.
Match ==
    /\ pc = "match"
    /\ LET names == {df.rows[k]["Model"].s : k \in 1..Len(df.rows)}
       IN  \E f \in [names -> UNION {MatchCandidates(matching_index, n) : n \in names}] :
              /\ \A n \in names : f[n] \in MatchCandidates(matching_index, n)
              /\ df' = [cols |-> df.cols \cup {"matched_model"},
                        rows |-> [k \in 1..Len(df.rows) |->
                                    ("matched_model" :> f[df.rows[k]["Model"].s]) @@
                                    df.rows[k]]]
    /\ Goto("select")
    /\ UNCHANGED <<requests, failed, table, model_df, matching_index, model_df_best,
                   merged, top100_md, catalogs, files, calls>>

(***************************************************************************)
(* Selection and join (lines 501-517)                                      *)
(***************************************************************************)
\* select_best_pricing_row reads a column the frame does not have.
SelectKeyError(frame) ==
    \/ "input_cost_per_token" \notin frame.cols
    \/ "output_cost_per_token" \notin frame.cols
    \/ /\ "litellm_provider" \notin frame.cols
       /\ \E k \in 1..Len(frame.rows) : HasBothCostsNonzero(frame.rows[k])

SelectRaises ==
    /\ pc = "select"
    /\ SelectKeyError(model_df)
    /\ Raise("select")
    /\ UNCHANGED <<requests, failed, table, frames, catalogs, files, calls>>

\* Line 501
Select ==
    /\ pc = "select"
    /\ ~SelectKeyError(model_df)
    /\ model_df_best' = GroupBest(model_df)
    /\ Goto("join")
    /\ UNCHANGED <<requests, failed, table, df, model_df, matching_index, merged,
                   top100_md, catalogs, files, calls>>

\* The join with every row of the catalog, not one row per id.
JoinedWithEveryRow == model_df

\* The frame the leaderboard is joined with.
JoinedWith == model_df_best

\* Lines 506-515
Join ==
    /\ pc = "join"
    /\ merged' = LeftJoin(df, JoinedWith)
    /\ Goto("convert")
    /\ UNCHANGED <<requests, failed, table, df, model_df, matching_index, model_df_best,
                   top100_md, catalogs, files, calls>>

(***************************************************************************)
(* 5. Costs per million tokens, as strings (lines 530-599)                 *)
(***************************************************************************)
\* Lines 530-557
Convert ==
    /\ pc = "convert"
    /\ merged' = ConvertColumns(merged, Len(PerMillionColumns))
    /\ Goto("format")
    /\ UNCHANGED <<requests, failed, table, df, model_df, matching_index, model_df_best,
                   top100_md, catalogs, files, calls>>

\* The preview written first, and the CSV not at all.
AfterFormatPreviewOnly == "to_markdown"

\* The statement that follows the formatting of the costs (line 618).
AfterFormat == "to_csv"

\* Lines 569-599
Format ==
    /\ pc = "format"
    /\ merged' = FormatCosts(merged)
    /\ Goto(AfterFormat)
    /\ UNCHANGED <<requests, failed, table, df, model_df, matching_index, model_df_best,
                   top100_md, catalogs, files, calls>>

(***************************************************************************)
(* The two files (lines 606-623)                                           *)
(***************************************************************************)
\* to_csv raises (the file cannot be created, or not written to its end).
ToCsvFails ==
    /\ pc = "to_csv"
    /\ \E st \in {"absent", "partial"} : csv' = [state |-> st, frame |-> EmptyFrame]
    /\ Raise("to_csv")
    /\ UNCHANGED <<requests, failed, table, frames, catalogs, md, calls>>

\* Lines 615-618: the order of the columns is not modelled.
ToCsv ==
    /\ pc = "to_csv"
    /\ csv' = [state |-> "written", frame |-> merged]
    /\ Goto("to_markdown")
    /\ UNCHANGED <<requests, failed, table, frames, catalogs, md, calls>>

\* to_markdown raises: it imports tabulate, an optional dependency of pandas.
ToMarkdownFails ==
    /\ pc = "to_markdown"
    /\ Raise("to_markdown")
    /\ UNCHANGED <<requests, failed, table, frames, catalogs, files, calls>>

\* Line 621
ToMarkdown ==
    /\ pc = "to_markdown"
    /\ top100_md' = head(merged, PreviewRows)
    /\ Goto("write_md")
    /\ UNCHANGED <<requests, failed, table, df, model_df, matching_index, model_df_best,
                   merged, catalogs, files, calls>>

\* open raises (no file), or write does (a file cut short).
WriteMdFails ==
    /\ pc = "write_md"
    /\ \E st \in {"absent", "partial"} : md' = [state |-> st, frame |-> EmptyFrame]
    /\ Raise("write_md")
    /\ UNCHANGED <<requests, failed, table, frames, catalogs, csv, calls>>

\* Lines 622-623
WriteMd ==
    /\ pc = "write_md"
    /\ md' = [state |-> "written", frame |-> top100_md]
    /\ Goto("done")
    /\ UNCHANGED <<requests, failed, table, frames, catalogs, csv, calls>>

Next ==
    \/ ScrapeFails \/ ScrapeNoTable \/ Scrape \/ Rank
    \/ FetchLiteLLMFails \/ FetchLiteLLM
    \/ FetchOpenRouter1 \/ Merge1 \/ FetchOpenRouter2 \/ Merge2
    \/ CleanRaises \/ Clean \/ Match
    \/ SelectRaises \/ Select \/ Join
    \/ Convert \/ Format
    \/ ToCsvFails \/ ToCsv \/ ToMarkdownFails \/ ToMarkdown
    \/ WriteMdFails \/ WriteMd

\* One run of the script.
Spec == Init /\ [][Next]_vars

(***************************************************************************)
(* A run from the cleaning of the names on, to the matching: the           *)
(* leaderboard has one row, OpenRouter has failed twice, and the catalog   *)
(* is that of LiteLLM.  Any text is a name with a one-id catalog, and the  *)
(* listed names go with every catalog.                                     *)
(***************************************************************************)
InitNames ==
    /\ pc = "clean"
    /\ \E name \in Texts \cup ListedNames, catalog \in NameCatalogs :
          /\ name \in ListedNames \/ catalog = CHOOSE c \in NameCatalogs : Len(c) = 1
          /\ table = <<[model |-> name, arena_elo |-> Str(<<"1", "4", "0", "0">>)]>>
          /\ df = [cols |-> {"Model", "Arena Score", "Rank* (UB)"},
                   rows |-> << ("Model" :> Str(name)) @@
                               ("Arena Score" :> Num(1400, 0)) @@
                               ("Rank* (UB)" :> Num(1, 0)) >>]
          /\ primary = catalog
          /\ model_info = catalog
          /\ model_df = ModelDf(catalog)
    /\ requests = [u \in Sources |-> IF u = "openrouter" THEN 2 ELSE 1]
    /\ failed = {"openrouter"}
    /\ raisedAt = ""
    /\ resp = NoResponse
    /\ openrouter_models = <<>>
    /\ matching_index = <<>>
    /\ model_df_best = EmptyFrame
    /\ merged = EmptyFrame
    /\ top100_md = EmptyFrame
    /\ csv = NoFile
    /\ md = NoFile
    /\ group = <<>>
    /\ best = NoRow

NextNames == CleanRaises \/ Clean \/ Match

SpecNames == InitNames /\ [][NextNames]_vars

(***************************************************************************)
(* select_best_pricing_row on its own: one call on a group of rows of one  *)
(* id.                                                                     *)
(***************************************************************************)
InitSelect ==
    /\ pc = "select_call"
    /\ Start
    /\ resp = NoResponse
    /\ group \in Groups
    /\ best = NoRow

SelectCall ==
    /\ pc = "select_call"
    /\ best' = select_best_pricing_row(group)
    /\ Goto("select_returned")
    /\ UNCHANGED <<requests, failed, table, frames, catalogs, files, group>>

NextSelect == SelectCall

SpecSelect == InitSelect /\ [][NextSelect]_vars

(***************************************************************************)
(* fetch_openrouter_pricing on its own: one call, OpenRouter answering     *)
(* with any payload of PayloadEntries or not at all.                       *)
(***************************************************************************)
InitOpenRouter ==
    /\ pc = "openrouter_call"
    /\ Start
    /\ resp = NoResponse
    /\ group = <<>>
    /\ best = NoRow

OpenRouterCall == FetchOpenRouter("openrouter_call", "openrouter_returned")

NextOpenRouter == OpenRouterCall

SpecOpenRouter == InitOpenRouter /\ [][NextOpenRouter]_vars

(***************************************************************************)
(* Properties of a run                                                     *)
(***************************************************************************)
AfterJoin == {"convert", "format", "to_csv", "to_markdown", "write_md", "done"}

\* Row k of the frame is leaderboard row k: it has its cells.
IsLeaderboardRow(frame, k) == \A c \in df.cols : frame.rows[k][c] = df.rows[k][c]

OneRowPerLeaderboardRow(frame) ==
    /\ Len(frame.rows) = Len(table)
    /\ \A k \in 1..Len(frame.rows) : IsLeaderboardRow(frame, k)

\* C1: the joined table, and the CSV written from it, has exactly one row
\* per row of the fetched leaderboard, in the leaderboard's order: the left
\* join drops no row and duplicates none.
C1_OneRowPerLeaderboardRow ==
    /\ pc \in AfterJoin => OneRowPerLeaderboardRow(merged)
    /\ csv.state = "written" => OneRowPerLeaderboardRow(csv.frame)

\* The CSV is written for a leaderboard with a row that has no matched id
\* and a row whose matched id is the cleaned id of several catalog rows.
C1_Witness ==
    /\ csv.state = "written"
    /\ Len(table) >= 2
    /\ \E k \in 1..Len(df.rows) : df.rows[k]["matched_model"] = NaN
    /\ \E k \in 1..Len(df.rows) :
          Len(RowsOfModel(model_df.rows, df.rows[k]["matched_model"])) >= 2

\* C2 as stated: a run that has ended has written both files or neither.
C2_AllOrNothing ==
    pc \in {"done", "aborted"} => (csv.state = "written" <=> md.state = "written")

\* C2 as amended: a run that raises before the CSV is written leaves no
\* file; the preview is written, wholly or in part, only after the whole
\* CSV; a run that ends without raising has written both.
C2_NoFileBeforeCsv ==
    /\ pc = "aborted" /\ raisedAt \notin {"to_csv", "to_markdown", "write_md"}
          => csv = NoFile /\ md = NoFile
    /\ md.state # "absent" => csv.state = "written"
    /\ pc = "done" => csv.state = "written" /\ md.state = "written"
    /\ pc \notin {"to_markdown", "write_md", "done", "aborted"} => csv = NoFile /\ md = NoFile

\* The run ends at to_markdown with the CSV written and no preview.
C2_Witness ==
    /\ pc = "aborted"
    /\ raisedAt = "to_markdown"
    /\ csv.state = "written"
    /\ md.state = "absent"

\* C3 as stated: after the failure of any fetch the run is aborted and has
\* written no file.
C3_EveryFetchFailureFatal ==
    failed # {} => pc = "aborted" /\ csv = NoFile /\ md = NoFile

\* C3 as amended: a failure of the leaderboard or LiteLLM fetch aborts the
\* run at that statement, with no file written and no later request; a
\* failure of an OpenRouter fetch is answered by the empty mapping and the
\* run goes on; the leaderboard and LiteLLM are requested at most once and
\* OpenRouter once by each of its two calls.
C3_PrimaryFetchFailureFatal ==
    /\ "leaderboard" \in failed =>
          /\ pc = "aborted" /\ raisedAt = "scrape"
          /\ csv = NoFile /\ md = NoFile
          /\ requests = [u \in Sources |-> IF u = "leaderboard" THEN 1 ELSE 0]
    /\ "litellm" \in failed =>
          /\ pc = "aborted" /\ raisedAt = "litellm"
          /\ csv = NoFile /\ md = NoFile
          /\ requests = [u \in Sources |-> IF u = "openrouter" THEN 0 ELSE 1]
    /\ pc \in {"merge1", "merge2"} /\ ~resp.ok =>
          "openrouter" \in failed /\ openrouter_models = <<>>
    /\ requests["leaderboard"] <= 1 /\ requests["litellm"] <= 1
    /\ requests["openrouter"] =
          (CASE pc \in {"scrape", "rank", "litellm", "openrouter1"} -> 0
             [] pc = "aborted" /\ raisedAt \in {"scrape", "litellm"} -> 0
             [] pc \in {"merge1", "openrouter2"} -> 1
             [] OTHER -> 2)

\* A run in which an OpenRouter fetch failed writes both files.
C3_Witness ==
    /\ pc = "done"
    /\ "openrouter" \in failed
    /\ csv.state = "written" /\ md.state = "written"

\* C4: model_info begins with the entries of the LiteLLM catalog, each with
\* its key, its place and its data, after any number of merges; what
\* follows them has keys the catalog does not have and is OpenRouter's.
C4_PrimaryPrecedence ==
    /\ Len(model_info) >= Len(primary)
    /\ \A i \in 1..Len(primary) : model_info[i] = primary[i]
    /\ \A i \in (Len(primary) + 1)..Len(model_info) :
          /\ model_info[i].key \notin DictKeys(primary)
          /\ \A j \in 1..Len(model_info) : model_info[j].key = model_info[i].key => j = i
          /\ model_info[i].data["litellm_provider"] = Str(<<"o", "p", "e", "n", "r", "o", "u", "t", "e", "r">>)

\* Both merges are done, OpenRouter has an id of LiteLLM with other prices,
\* and an id LiteLLM does not have.
C4_Witness ==
    /\ pc = "clean"
    /\ \E k \in DictKeys(primary) \cap DictKeys(openrouter_models) :
          DictGet(openrouter_models, k)["input_cost_per_token"]
             # DictGet(primary, k)["input_cost_per_token"]
    /\ DictKeys(openrouter_models) \ DictKeys(primary) # {}
    /\ Len(model_info) > Len(primary)

\* The per-million columns of a frame: the new names of lines 531-535.
PerMillionNames(frame) ==
    {PerMillionColumns[i][2] : i \in 1..Len(PerMillionColumns)} \cap frame.cols

\* No generated variant of the name of leaderboard row k is a key of the
\* index.
Unmatched(k) ==
    generate_model_variants(df.rows[k]["Model"].s) \cap DOMAIN matching_index = {}

\* C5 as stated: a leaderboard row without a match is in both files at the
\* place of its rank, and every per-million cost cell of it is empty there.
C5_UnmatchedRowKeptBlank ==
    md.state = "written" =>
        \A k \in 1..Len(df.rows) :
            Unmatched(k) =>
               /\ k <= Len(csv.frame.rows)
               /\ IsLeaderboardRow(csv.frame, k)
               /\ csv.frame.rows[k]["Rank* (UB)"] = Num(k, 0)
               /\ \A c \in PerMillionNames(csv.frame) :
                     CsvField(csv.frame.rows[k][c]) = <<>>
               /\ k <= PreviewRows =>
                     /\ k <= Len(md.frame.rows)
                     /\ IsLeaderboardRow(md.frame, k)
                     /\ \A c \in PerMillionNames(md.frame) :
                           MarkdownCell(md.frame.rows[k][c]) = <<>>

\* C6: in the CSV the ranks are 1, 2, ..., N from top to bottom, no row
\* has a higher score than a row above it, and no row with a score is below
\* a row without one.
C6_RankedByScore ==
    csv.state = "written" =>
        LET rows == csv.frame.rows
        IN  /\ \A k \in 1..Len(rows) : rows[k]["Rank* (UB)"] = Num(k, 0)
            /\ \A k, l \in 1..Len(rows) :
                  k < l =>
                     LET a == rows[k]["Arena Score"]
                         b == rows[l]["Arena Score"]
                     IN  IsNum(b) => IsNum(a) /\ ~NumLess(a, b)

\* The CSV is written for a leaderboard fetched with a row without a score
\* above a row with one, and with a lower score above a higher one.
C6_Witness ==
    /\ csv.state = "written"
    /\ Len(table) >= 2
    /\ \/ to_numeric(table[1].arena_elo) = NaN /\ to_numeric(table[2].arena_elo) # NaN
       \/ /\ to_numeric(table[1].arena_elo) # NaN /\ to_numeric(table[2].arena_elo) # NaN
          /\ NumLess(to_numeric(table[1].arena_elo), to_numeric(table[2].arena_elo))

\* The per-token cost the catalog gives leaderboard row k in column old:
\* that of the one row of model_df_best with the matched id.
CatalogCost(k, old) ==
    LET found == RowsOfModel(model_df_best.rows, df.rows[k]["matched_model"])
    IN  IF found = <<>> THEN NaN ELSE found[1][old]

\* C7 as stated: for each of the five per-token cost fields of the joined
\* table, every cell of its per-million column in the CSV is a string, the
\* empty one for an absent cost and else the cost times 1,000,000 with two
\* decimals.
C7_CostCellsFormatted ==
    csv.state = "written" =>
        \A i \in 1..Len(PerMillionColumns) :
            PerMillionColumns[i][1] \in model_df_best.cols =>
                /\ PerMillionColumns[i][2] \in csv.frame.cols
                /\ \A k \in 1..Len(csv.frame.rows) :
                      LET cell == csv.frame.rows[k][PerMillionColumns[i][2]]
                          cost == CatalogCost(k, PerMillionColumns[i][1])
                      IN  /\ IsStr(cell)
                          /\ cell.s = IF cost = NaN THEN <<>>
                                      ELSE TwoDecimals(Num(cost.m * 1000000, cost.e))

(***************************************************************************)
(* The row select_best_pricing_row returns                                 *)
(***************************************************************************)
\* Both costs of a row are numbers above zero.
BothPositive(row) ==
    /\ row["input_cost_per_token"] # NaN
    /\ row["output_cost_per_token"] # NaN
    /\ row["input_cost_per_token"].m > 0
    /\ row["output_cost_per_token"].m > 0

\* The provider of a row is one of the five of the list.
Listed(row) ==
    row["litellm_provider"] \in
        {Str(<<"o", "p", "e", "n", "a", "i">>), Str(<<"a", "n", "t", "h", "r", "o", "p", "i", "c">>),
         Str(<<"v", "e", "r", "t", "e", "x", "_", "a", "i", "-", "l", "a", "n", "g", "u", "a", "g", "e", "-", "m", "o", "d", "e", "l", "s">>),
         Str(<<"g", "e", "m", "i", "n", "i">>), Str(<<"o", "p", "e", "n", "r", "o", "u", "t", "e", "r">>)}

\* The places of the rows of the group, in catalog order.
Places == 1..Len(group)

First(S) == CHOOSE i \in S : \A j \in S : i <= j

\* C8: the row returned for a non-empty group is a row of the group; when
\* some row has both costs above zero it is such a row, and one of a listed
\* provider when such a row has one; otherwise it is the first row with
\* both costs present; otherwise the first row with an input cost;
\* otherwise the first row of the group.
C8_StrictPriority ==
    pc = "select_returned" =>
        LET positive == {i \in Places : BothPositive(group[i])}
            listed == {i \in positive : Listed(group[i])}
            both == {i \in Places : /\ group[i]["input_cost_per_token"] # NaN
                                    /\ group[i]["output_cost_per_token"] # NaN}
            input == {i \in Places : group[i]["input_cost_per_token"] # NaN}
        IN  /\ \E i \in Places : best = group[i]
            /\ positive # {} =>
                  /\ \E i \in positive : best = group[i]
                  /\ listed # {} => \E i \in listed : best = group[i]
            /\ positive = {} /\ both # {} => best = group[First(both)]
            /\ both = {} /\ input # {} => best = group[First(input)]
            /\ input = {} => best = group[1]

\* A row of a provider outside the list with both costs above zero comes
\* before an 'openai' row with both costs above zero, and the 'openai' row
\* is returned.
C8_Witness ==
    /\ pc = "select_returned"
    /\ Len(group) = 2
    /\ BothPositive(group[1]) /\ ~Listed(group[1])
    /\ BothPositive(group[2]) /\ group[2]["litellm_provider"] = Str(<<"o", "p", "e", "n", "a", "i">>)
    /\ best = group[2]

\* The place of a provider in the list.
ListPlace(v) == CHOOSE i \in 1..Len(primary_providers) : primary_providers[i] = v

\* C9 as stated: when rows of several listed providers have both costs
\* above zero, the returned row is of the provider that comes first in the
\* list, whatever the order of the rows in the catalog.
C9_ListedOrder ==
    pc = "select_returned" =>
        \A i \in Places :
            BothPositive(group[i]) /\ Listed(group[i]) =>
                /\ Listed(best)
                /\ ListPlace(best["litellm_provider"])
                       <= ListPlace(group[i]["litellm_provider"])

\* C9: when rows of listed providers have both costs above zero, the
\* returned row is the first of them in catalog order, wherever its
\* provider stands in the list.
C9_FirstListedInCatalogOrder ==
    pc = "select_returned" =>
        LET listed == {i \in Places : BothPositive(group[i]) /\ Listed(group[i])}
        IN  listed # {} => best = group[First(listed)]

\* An 'anthropic' row comes before an 'openai' row, both with both costs
\* above zero, and the 'anthropic' row is returned.
C9_Witness ==
    /\ pc = "select_returned"
    /\ Len(group) = 2
    /\ BothPositive(group[1]) /\ group[1]["litellm_provider"] = Str(<<"a", "n", "t", "h", "r", "o", "p", "i", "c">>)
    /\ BothPositive(group[2]) /\ group[2]["litellm_provider"] = Str(<<"o", "p", "e", "n", "a", "i">>)
    /\ best = group[1]

(***************************************************************************)
(* ':free' entries of the OpenRouter payload                               *)
(***************************************************************************)
\* The id of a payload entry carries the ':free' tag.
TaggedFree(entry) == Contains(entry.id, FREE)

\* The id without the tag is an id of the payload.
HasSibling(entry) ==
    \E j \in 1..Len(resp.data) : resp.data[j].id = ReplaceAll(entry.id, FREE, <<>>)

\* The entry has a price: one of its two prices is given, and each that is
\* given is the text of a number.
HasNumericPrice(entry) ==
    /\ \E v \in {entry.prompt, entry.completion} : v # NaN
    /\ \A v \in {entry.prompt, entry.completion} : v # NaN => IsNumericText(v.s)

\* The values of the returned mapping that were built from an entry.
BuiltFrom(entry) ==
    {n \in 1..Len(openrouter_models) :
        openrouter_models[n].data["openrouter_id"] = Str(entry.id)}

\* A ':free' entry whose base id is in the payload leaves nothing in the
\* returned mapping.
ShadowedFreeDropped ==
    pc = "openrouter_returned" /\ resp.ok =>
        \A i \in 1..Len(resp.data) :
            TaggedFree(resp.data[i]) /\ HasSibling(resp.data[i])
                => BuiltFrom(resp.data[i]) = {}

\* A ':free' entry without a sibling that has a price, its id the id of no
\* other entry, is in the returned mapping under its id.
UnshadowedFreeKept ==
    pc = "openrouter_returned" /\ resp.ok =>
        \A i \in 1..Len(resp.data) :
            /\ TaggedFree(resp.data[i])
            /\ ~HasSibling(resp.data[i])
            /\ HasNumericPrice(resp.data[i])
            /\ \A j \in 1..Len(resp.data) : j # i => resp.data[j].id # resp.data[i].id
            => \E n \in BuiltFrom(resp.data[i]) :
                  openrouter_models[n].key = Lower(resp.data[i].id)

\* C10 as stated: a ':free' entry whose base id is also an id of the payload
\* contributes no key and no prices to the returned mapping, and a ':free'
\* entry without such a sibling is kept when it has a price.
C10_FreeShadowedElseKept == ShadowedFreeDropped /\ UnshadowedFreeKept

(***************************************************************************)
(* Missing and malformed prices of the OpenRouter payload                  *)
(***************************************************************************)
\* The price an entry is due for a raw price field: the number the text
\* reads as, and no price for a missing field or a text that is no number.
PriceDue(raw) ==
    IF raw # NaN /\ IsNumericText(raw.s) THEN ParseFloat(raw.s) ELSE NaN

\* The entry is one the function is to return: its id is the id of no
\* other entry and the slug of none (no other entry is stored under its
\* keys), it is not a ':free' entry with a sibling, and one of its two
\* prices is a number.
DueInMapping(i) ==
    /\ \A j \in 1..Len(resp.data) :
          j # i => /\ resp.data[j].id # resp.data[i].id
                   /\ resp.data[j].canonical_slug # resp.data[i].id
                   /\ resp.data[j].hugging_face_id # resp.data[i].id
    /\ ~(TaggedFree(resp.data[i]) /\ HasSibling(resp.data[i]))
    /\ PriceDue(resp.data[i].prompt) # NaN \/ PriceDue(resp.data[i].completion) # NaN

\* C11 as stated: a price that is missing or is no number is an absent
\* price of its entry, not zero and not an error; every entry of the payload
\* that has a price is returned with its prices.
C11_BadPriceIsAbsentPrice ==
    pc = "openrouter_returned" /\ resp.ok =>
        \A i \in 1..Len(resp.data) :
            DueInMapping(i) =>
                \E n \in BuiltFrom(resp.data[i]) :
                    /\ openrouter_models[n].data["input_cost_per_token"]
                          = PriceDue(resp.data[i].prompt)
                    /\ openrouter_models[n].data["output_cost_per_token"]
                          = PriceDue(resp.data[i].completion)

\* No price of the payload is a text that is no number.
NoMalformedPrice ==
    \A i \in 1..Len(resp.data) :
        \A v \in {resp.data[i].prompt, resp.data[i].completion} :
            v # NaN => IsNumericText(v.s)

\* The part of C11 that holds: with no malformed price in the payload, a
\* missing price is an absent price and every priced entry is returned.
MissingPriceIsAbsentPrice == NoMalformedPrice => C11_BadPriceIsAbsentPrice

(***************************************************************************)
(* Ties of the ranking                                                     *)
(***************************************************************************)
\* The names of the fetched rows with score v, in the order of the fetch,
\* as the CSV spells them.
FetchedWithScore(v) ==
    LET Tied(row) == to_numeric(row.arena_elo) = v
        tied == SelectSeq(table, Tied)
    IN  [k \in 1..Len(tied) |-> CleanCell(Str(tied[k].model))]

\* The names of the rows of the CSV with score v, from top to bottom.
RankedWithScore(v) ==
    LET Tied(row) == row["Arena Score"] = v
        tied == SelectSeq(csv.frame.rows, Tied)
    IN  [k \in 1..Len(tied) |-> tied[k]["Model"]]

\* C12 as stated: rows with equal score, or both without a numeric score,
\* are ranked in the order they have in the fetched table.
C12_TiesInFetchOrder ==
    csv.state = "written" =>
        \A i \in 1..Len(table) :
            LET v == to_numeric(table[i].arena_elo)
            IN  RankedWithScore(v) = FetchedWithScore(v)

\* The part of C12 that holds: the rows without a numeric score are ranked
\* in the order they have in the fetched table.
UnscoredInFetchOrder ==
    csv.state = "written" => RankedWithScore(NaN) = FetchedWithScore(NaN)

(***************************************************************************)
(* The id find_best_match returns                                          *)
(***************************************************************************)
\* C13 as stated: the id matched to a name does not depend on the order in
\* which its variants are tried; every variant of the name that is a key
\* of the matching index leads to the id that was returned.
C13_MatchIndependentOfVariantOrder ==
    "matched_model" \in df.cols =>
        \A k \in 1..Len(df.rows) :
            \A v \in generate_model_variants(df.rows[k]["Model"].s)
                        \cap DOMAIN matching_index :
                matching_index[v] = df.rows[k]["matched_model"]

\* What does hold: the id returned is that of some variant of the name that
\* is a key of the index, and there is none when no variant is a key.
MatchIsOfSomeVariant ==
    "matched_model" \in df.cols =>
        \A k \in 1..Len(df.rows) :
            LET hits == generate_model_variants(df.rows[k]["Model"].s)
                            \cap DOMAIN matching_index
            IN  IF hits = {} THEN df.rows[k]["matched_model"] = NaN
                ELSE \E v \in hits : matching_index[v] = df.rows[k]["matched_model"]

(***************************************************************************)
(* clean applied to a cleaned name                                         *)
(***************************************************************************)
\* The names of the two tables have been cleaned (lines 383-384).
NamesCleaned == pc \in {"match", "select"}

\* C14 as stated: clean leaves a cleaned name as it is, whatever the text
\* it was cleaned from; generate_model_variants cleans the cleaned names of
\* both tables once more.
C14_CleanIdempotent ==
    NamesCleaned =>
        /\ \A k \in 1..Len(df.rows) :
              clean(df.rows[k]["Model"].s) = df.rows[k]["Model"].s
        /\ \A k \in 1..Len(model_df.rows) :
              clean(model_df.rows[k]["model"].s) = model_df.rows[k]["model"].s

\* What does hold: clean leaves the cleaned name as it is when the text it
\* was cleaned from has no newline.
CleanIdempotentOnOneLine ==
    (\A k \in 1..Len(table) : ~Contains(table[k].model, <<"\n">>))
        => C14_CleanIdempotent

=============================================================================
